---------------------------- MODULE Spec2Model ----------------------------
(***************************************************************************)
(* Secret-santa service (src/src/main.rs): the in-memory DataBase behind   *)
(* one Mutex and the eight route handlers that read and mutate it.         *)
(*                                                                         *)
(* Each handler is an operator from (DataBase, decoded fields) to the      *)
(* DataBase it leaves and the Response it returns, translated branch by    *)
(* branch from the handler's code.  Four specifications apply them:        *)
(*   Spec      the commands run one after another from the empty database  *)
(*             of main();                                                  *)
(*   SpecDb    one command applied to any referentially intact DataBase    *)
(*             value (closed groups and several admins included, which no  *)
(*             route produces);                                            *)
(*   SpecConc  request threads running /user/create and /group/create      *)
(*             statement by statement around the Mutex;                    *)
(*   SpecSer   request threads running all eight handlers, reads and       *)
(*             writes in separate steps, beside the same commands run one  *)
(*             by one in the order the Mutex was taken.                    *)
(***************************************************************************)
EXTENDS Integers, Sequences, FiniteSets, TLC

(***************************************************************************)
(* Bounds of the model.                                                    *)
(***************************************************************************)
\* CreateUser is taken while users_max_id < MaxUsers.  Id is u32: the
\* counters' `+= 1` overflows only at 2^32 - 1 (a panic with overflow checks,
\* a wrap to 0 without); every run here stays below that.
MaxUsers == 2
\* CreateGroup is taken while groups_max_id < MaxGroups
MaxGroups == 2
\* SpecConc: number of request threads, and requests they serve in all
NThreads == 2
MaxReqs == 3

\* stands for "no id" in a field that carries none
NoId == -1
\* the names a /user/create request carries
Names == {"", "Alice"}

\* Access (main.rs 9-13)
Access == {"User", "Admin"}

VARIABLES
    users,          \* DataBase.users: id -> name
    users_max_id,   \* DataBase.users_max_id
    groups,         \* DataBase.groups: id -> is_closed
    groups_max_id,  \* DataBase.groups_max_id
    user_groups,    \* DataBase.user_groups: UserGroupId -> UserGroupProps
    poisoned,       \* the Mutex is poisoned (a handler panicked holding it)
    last,           \* the last command served: its fields and its Response
    issued,         \* ids returned so far by successful creations
    mutex,          \* SpecConc: the thread holding the Mutex, or NoThread
    pc,             \* SpecConc: each thread's position in its handler
    req,            \* SpecConc: each thread's decoded request
    local,          \* SpecConc: each thread's local `id`
    served,         \* SpecConc: number of requests taken so far
    blocked,        \* SpecConc: the thread's lock() had to wait for another
    done,           \* SpecConc: the responses of finished creations
    plan,           \* SpecSer: each thread's handler locals (Response, delete_vec)
    sdb,            \* SpecSer: the DataBase of the commands run one by one
    expect          \* SpecSer: the Response each command has when run alone

dbvars == <<users, users_max_id, groups, groups_max_id, user_groups>>
thvars == <<mutex, pc, req, local, served, blocked, done>>
servars == <<plan, sdb, expect>>
vars == <<users, users_max_id, groups, groups_max_id, user_groups, poisoned,
          last, issued, mutex, pc, req, local, served, blocked, done,
          plan, sdb, expect>>

(***************************************************************************)
(* Data                                                                    *)
(***************************************************************************)
\* struct UserGroupId
UserGroupId(user_id, group_id) == [user_id |-> user_id, group_id |-> group_id]

\* struct UserGroupProps
UserGroupProps(access_level, santa_id) ==
    [access_level |-> access_level, santa_id |-> santa_id]

\* struct DataBase, as the value the Mutex guards
DataBase(u, um, g, gm, ug) ==
    [users |-> u, users_max_id |-> um, groups |-> g, groups_max_id |-> gm,
     user_groups |-> ug]

\* the current DataBase
DB == DataBase(users, users_max_id, groups, groups_max_id, user_groups)

\* HashMap::insert: adds the key or overwrites its value
MapInsert(m, k, v) == [x \in (DOMAIN m) \cup {k} |-> IF x = k THEN v ELSE m[x]]

\* HashMap::remove / HashMap::retain: the map restricted to the keys kept
MapRestrict(m, keep) == [x \in keep |-> m[x]]

\* the empty HashMap
EmptyMap == [x \in {} |-> NoId]

(***************************************************************************)
(* Responses                                                               *)
(***************************************************************************)
\* a Response: status, the "error" message, the key and id of a data body,
\* the group ids formatted into the message, and a listing body
Resp(status, error, key, id, grps, body) ==
    [status |-> status, error |-> error, key |-> key, id |-> id,
     groups |-> grps, body |-> body]

\* response_data(json!({key: id}))
response_data(key, id) == Resp(200, "", key, id, {}, EmptyMap)

\* response_empty()
response_empty == Resp(200, "", "", NoId, {}, EmptyMap)

\* response_error(msg)
response_error(msg) == Resp(400, msg, "", NoId, {}, EmptyMap)

\* an unwrap() failed: the handler's thread panics and no Response is built
Panic == Resp(0, "panic", "", NoId, {}, EmptyMap)

MsgBadName == "bad name"
MsgNoUser == "no such user"
MsgNoGroup == "no such group"
MsgClosed == "group is closed"
MsgAlready == "user already in group"
MsgNotMember == "User does not belong to this group. Try again."
MsgNotAdmin == "This user is not an admin."
MsgLastAdmin == "It is impossible to remove the last admin in a group. You can appoint a new admin and repeat or delete the whole group."
MsgNotExist == "This user does not exist."
MsgHasClosed == "User have closed groups. So he was deleted from opened groups."
MsgSoleAdmin == "User cannot be delete from group ... because he is the last admin in these groups."

\* what a handler yields: the DataBase it leaves and its Response
Out(db, resp) == [db |-> db, resp |-> resp]

(***************************************************************************)
(* Helpers of main.rs                                                      *)
(***************************************************************************)
\* get_not_used_in_map_id (defined in main.rs, called by no handler)
get_not_used_in_map_id(map) ==
    IF DOMAIN map = {} THEN 0
    ELSE (CHOOSE m \in DOMAIN map : \A k \in DOMAIN map : k <= m) + 1

\* does_user_belong_to_group
does_user_belong_to_group(user_id, group_id, ugs) ==
    UserGroupId(user_id, group_id) \in DOMAIN ugs

\* count_admins
count_admins(group_id, ugs) ==
    Cardinality({x \in DOMAIN ugs :
        x.group_id = group_id /\ ugs[x].access_level = "Admin"})


(***************************************************************************)
(* The Mutex                                                               *)
(***************************************************************************)
\* state.lock().unwrap(): on a poisoned Mutex the unwrap panics before the
\* handler's body runs; otherwise the body's outcome stands
lock(db, out) == IF poisoned THEN Out(db, Panic) ELSE out

(***************************************************************************)
(* Handlers                                                                *)
(***************************************************************************)
\* user_create allocating with get_not_used_in_map_id instead of the counter
user_create_reuse(db, name) ==
    IF Len(name) > 0
    THEN lock(db,
            LET id == get_not_used_in_map_id(db.users) IN
            Out([db EXCEPT !.users = MapInsert(db.users, id, name),
                           !.users_max_id = id + 1],
                response_data("id", id)))
    ELSE Out(db, response_error(MsgBadName))

\* user_create, the /user/create handler
user_create(db, name) ==
    IF Len(name) > 0
    THEN lock(db,
            LET id == db.users_max_id IN
            Out([db EXCEPT !.users = MapInsert(db.users, id, name),
                           !.users_max_id = id + 1],
                response_data("id", id)))
    ELSE Out(db, response_error(MsgBadName))

\* the /users handler
users_list(db) == lock(db, Out(db, Resp(200, "", "", NoId, {}, db.users)))

\* the /groups handler
groups_list(db) == lock(db, Out(db, Resp(200, "", "", NoId, {}, db.groups)))

\* /group/create advancing groups_max_id before the creator is looked up
group_create_bump(db, creator_id) ==
    lock(db,
        IF creator_id \notin DOMAIN db.users
        THEN Out([db EXCEPT !.groups_max_id = @ + 1], response_error(MsgNoUser))
        ELSE LET id == db.groups_max_id IN
             Out([db EXCEPT
                    !.groups = MapInsert(db.groups, id, FALSE),
                    !.groups_max_id = id + 1,
                    !.user_groups = MapInsert(db.user_groups,
                                        UserGroupId(creator_id, id),
                                        UserGroupProps("Admin", 0))],
                 response_data("group_id", id)))

\* /group/create allocating with get_not_used_in_map_id instead of the counter
group_create_reuse(db, creator_id) ==
    lock(db,
        IF creator_id \notin DOMAIN db.users
        THEN Out(db, response_error(MsgNoUser))
        ELSE LET id == get_not_used_in_map_id(db.groups) IN
             Out([db EXCEPT
                    !.groups = MapInsert(db.groups, id, FALSE),
                    !.groups_max_id = id + 1,
                    !.user_groups = MapInsert(db.user_groups,
                                        UserGroupId(creator_id, id),
                                        UserGroupProps("Admin", 0))],
                 response_data("group_id", id)))

\* /group/create inserting the group closed
group_create_closed(db, creator_id) ==
    lock(db,
        IF creator_id \notin DOMAIN db.users
        THEN Out(db, response_error(MsgNoUser))
        ELSE LET id == db.groups_max_id IN
             Out([db EXCEPT
                    !.groups = MapInsert(db.groups, id, TRUE),
                    !.groups_max_id = id + 1,
                    !.user_groups = MapInsert(db.user_groups,
                                        UserGroupId(creator_id, id),
                                        UserGroupProps("Admin", 0))],
                 response_data("group_id", id)))

\* the /group/create handler
group_create(db, creator_id) ==
    lock(db,
        IF creator_id \notin DOMAIN db.users
        THEN Out(db, response_error(MsgNoUser))
        ELSE LET id == db.groups_max_id IN
             Out([db EXCEPT
                    !.groups = MapInsert(db.groups, id, FALSE),
                    !.groups_max_id = id + 1,
                    !.user_groups = MapInsert(db.user_groups,
                                        UserGroupId(creator_id, id),
                                        UserGroupProps("Admin", 0))],
                 response_data("group_id", id)))

\* /group/join looking the user up before the is_closed flag
group_join_userfirst(db, user_id, group_id) ==
    lock(db,
        LET user_group_id == UserGroupId(user_id, group_id) IN
        IF group_id \notin DOMAIN db.groups
        THEN Out(db, response_error(MsgNoGroup))
        ELSE IF user_id \notin DOMAIN db.users
        THEN Out(db, response_error(MsgNoUser))
        ELSE IF db.groups[group_id]
        THEN Out(db, response_error(MsgClosed))
        ELSE IF user_group_id \in DOMAIN db.user_groups
        THEN Out(db, response_error(MsgAlready))
        ELSE Out([db EXCEPT !.user_groups =
                        MapInsert(db.user_groups, user_group_id,
                                  UserGroupProps("User", 0))],
                 response_empty))

\* /group/join without the contains_key check: the insert overwrites
group_join_nodup(db, user_id, group_id) ==
    lock(db,
        LET user_group_id == UserGroupId(user_id, group_id) IN
        IF group_id \notin DOMAIN db.groups
        THEN Out(db, response_error(MsgNoGroup))
        ELSE IF db.groups[group_id]
        THEN Out(db, response_error(MsgClosed))
        ELSE IF user_id \notin DOMAIN db.users
        THEN Out(db, response_error(MsgNoUser))
        ELSE Out([db EXCEPT !.user_groups =
                        MapInsert(db.user_groups, user_group_id,
                                  UserGroupProps("User", 0))],
                 response_empty))

\* /group/join inserting the membership with level Admin
group_join_admin(db, user_id, group_id) ==
    lock(db,
        LET user_group_id == UserGroupId(user_id, group_id) IN
        IF group_id \notin DOMAIN db.groups
        THEN Out(db, response_error(MsgNoGroup))
        ELSE IF db.groups[group_id]
        THEN Out(db, response_error(MsgClosed))
        ELSE IF user_id \notin DOMAIN db.users
        THEN Out(db, response_error(MsgNoUser))
        ELSE IF user_group_id \in DOMAIN db.user_groups
        THEN Out(db, response_error(MsgAlready))
        ELSE Out([db EXCEPT !.user_groups =
                        MapInsert(db.user_groups, user_group_id,
                                  UserGroupProps("Admin", 0))],
                 response_empty))

\* the /group/join handler
group_join(db, user_id, group_id) ==
    lock(db,
        LET user_group_id == UserGroupId(user_id, group_id) IN
        IF group_id \notin DOMAIN db.groups
        THEN Out(db, response_error(MsgNoGroup))
        ELSE IF db.groups[group_id]
        THEN Out(db, response_error(MsgClosed))
        ELSE IF user_id \notin DOMAIN db.users
        THEN Out(db, response_error(MsgNoUser))
        ELSE IF user_group_id \in DOMAIN db.user_groups
        THEN Out(db, response_error(MsgAlready))
        ELSE Out([db EXCEPT !.user_groups =
                        MapInsert(db.user_groups, user_group_id,
                                  UserGroupProps("User", 0))],
                 response_empty))

\* /group/unadmin comparing the admin count with 1 instead of 2
group_unadmin_lt1(db, admin_id, group_id) ==
    lock(db,
        LET ugid == UserGroupId(admin_id, group_id) IN
        IF ~does_user_belong_to_group(admin_id, group_id, db.user_groups)
        THEN Out(db, response_error(MsgNotMember))
        ELSE IF db.user_groups[ugid].access_level # "Admin"
        THEN Out(db, response_error(MsgNotAdmin))
        ELSE IF count_admins(group_id, db.user_groups) < 1
        THEN Out(db, response_error(MsgLastAdmin))
        ELSE Out([db EXCEPT !.user_groups[ugid].access_level = "User"],
                 response_empty))

\* /group/unadmin toggling the level: a plain member becomes Admin
group_unadmin_toggle(db, admin_id, group_id) ==
    lock(db,
        LET ugid == UserGroupId(admin_id, group_id) IN
        IF ~does_user_belong_to_group(admin_id, group_id, db.user_groups)
        THEN Out(db, response_error(MsgNotMember))
        ELSE IF db.user_groups[ugid].access_level # "Admin"
        THEN Out([db EXCEPT !.user_groups[ugid].access_level = "Admin"],
                 response_empty)
        ELSE IF count_admins(group_id, db.user_groups) < 2
        THEN Out(db, response_error(MsgLastAdmin))
        ELSE Out([db EXCEPT !.user_groups[ugid].access_level = "User"],
                 response_empty))

\* the /group/unadmin handler
group_unadmin(db, admin_id, group_id) ==
    lock(db,
        LET ugid == UserGroupId(admin_id, group_id) IN
        IF ~does_user_belong_to_group(admin_id, group_id, db.user_groups)
        THEN Out(db, response_error(MsgNotMember))
        ELSE IF db.user_groups[ugid].access_level # "Admin"
        THEN Out(db, response_error(MsgNotAdmin))
        ELSE IF count_admins(group_id, db.user_groups) < 2
        THEN Out(db, response_error(MsgLastAdmin))
        ELSE Out([db EXCEPT !.user_groups[ugid].access_level = "User"],
                 response_empty))

\* /group/delete without the retain: only the group record is removed
group_delete_noretain(db, admin_id, group_id) ==
    lock(db,
        LET ugid == UserGroupId(admin_id, group_id) IN
        IF ~does_user_belong_to_group(admin_id, group_id, db.user_groups)
        THEN Out(db, response_error(MsgNotMember))
        ELSE IF db.user_groups[ugid].access_level # "Admin"
        THEN Out(db, response_error(MsgNotAdmin))
        ELSE Out([db EXCEPT
                    !.groups = MapRestrict(db.groups,
                        (DOMAIN db.groups) \ {group_id})],
                 response_empty))

\* /group/delete running the retain before the admin check
group_delete_early(db, admin_id, group_id) ==
    lock(db,
        LET ugid == UserGroupId(admin_id, group_id) IN
        IF ~does_user_belong_to_group(admin_id, group_id, db.user_groups)
        THEN Out(db, response_error(MsgNotMember))
        ELSE IF db.user_groups[ugid].access_level # "Admin"
        THEN Out([db EXCEPT
                    !.user_groups = MapRestrict(db.user_groups,
                        {k \in DOMAIN db.user_groups : k.group_id # group_id})],
                 response_error(MsgNotAdmin))
        ELSE Out([db EXCEPT
                    !.user_groups = MapRestrict(db.user_groups,
                        {k \in DOMAIN db.user_groups : k.group_id # group_id}),
                    !.groups = MapRestrict(db.groups,
                        (DOMAIN db.groups) \ {group_id})],
                 response_empty))

\* /group/delete with the retain comparing user_id instead of group_id
group_delete_wrongkey(db, admin_id, group_id) ==
    lock(db,
        LET ugid == UserGroupId(admin_id, group_id) IN
        IF ~does_user_belong_to_group(admin_id, group_id, db.user_groups)
        THEN Out(db, response_error(MsgNotMember))
        ELSE IF db.user_groups[ugid].access_level # "Admin"
        THEN Out(db, response_error(MsgNotAdmin))
        ELSE Out([db EXCEPT
                    !.user_groups = MapRestrict(db.user_groups,
                        {k \in DOMAIN db.user_groups : k.user_id # group_id}),
                    !.groups = MapRestrict(db.groups,
                        (DOMAIN db.groups) \ {group_id})],
                 response_empty))

\* the /group/delete handler
group_delete(db, admin_id, group_id) ==
    lock(db,
        LET ugid == UserGroupId(admin_id, group_id) IN
        IF ~does_user_belong_to_group(admin_id, group_id, db.user_groups)
        THEN Out(db, response_error(MsgNotMember))
        ELSE IF db.user_groups[ugid].access_level # "Admin"
        THEN Out(db, response_error(MsgNotAdmin))
        ELSE Out([db EXCEPT
                    !.user_groups = MapRestrict(db.user_groups,
                        {k \in DOMAIN db.user_groups : k.group_id # group_id}),
                    !.groups = MapRestrict(db.groups,
                        (DOMAIN db.groups) \ {group_id})],
                 response_empty))

\* /user/delete comparing the admin count with >= 1: the sole admin is removable
user_delete_ge1(db, user_id) ==
    lock(db,
        IF user_id \notin DOMAIN db.users
        THEN Out(db, response_error(MsgNotExist))
        ELSE
        LET collection == {x \in DOMAIN db.user_groups : x.user_id = user_id} IN
        IF \E x \in collection : x.group_id \notin DOMAIN db.groups
        THEN Out(db, Panic)
        ELSE
        LET closed_collect == {x \in collection : db.groups[x.group_id] = TRUE}
            free_collect == {x \in collection : db.groups[x.group_id] = FALSE}
            delete_vec == {x \in free_collect :
                \/ db.user_groups[x].access_level = "User"
                \/ count_admins(x.group_id, db.user_groups) >= 1}
            vec == {x.group_id : x \in free_collect \ delete_vec}
            flag == vec # {}
        IN
        IF Cardinality(closed_collect) > 0
        THEN Out(db, response_error(MsgHasClosed))
        ELSE IF flag = FALSE
        THEN Out([db EXCEPT
                    !.user_groups = MapRestrict(db.user_groups,
                        (DOMAIN db.user_groups) \ delete_vec),
                    !.users = MapRestrict(db.users,
                        (DOMAIN db.users) \ {user_id})],
                 response_empty)
        ELSE Out(db, Resp(400, MsgSoleAdmin, "", NoId, vec, EmptyMap)))

\* /user/delete removing delete_vec before it reports the blocking groups
user_delete_partial(db, user_id) ==
    lock(db,
        IF user_id \notin DOMAIN db.users
        THEN Out(db, response_error(MsgNotExist))
        ELSE
        LET collection == {x \in DOMAIN db.user_groups : x.user_id = user_id} IN
        IF \E x \in collection : x.group_id \notin DOMAIN db.groups
        THEN Out(db, Panic)
        ELSE
        LET closed_collect == {x \in collection : db.groups[x.group_id] = TRUE}
            free_collect == {x \in collection : db.groups[x.group_id] = FALSE}
            delete_vec == {x \in free_collect :
                \/ db.user_groups[x].access_level = "User"
                \/ count_admins(x.group_id, db.user_groups) > 1}
            vec == {x.group_id : x \in free_collect \ delete_vec}
            flag == vec # {}
        IN
        IF Cardinality(closed_collect) > 0
        THEN Out(db, response_error(MsgHasClosed))
        ELSE IF flag = FALSE
        THEN Out([db EXCEPT
                    !.user_groups = MapRestrict(db.user_groups,
                        (DOMAIN db.user_groups) \ delete_vec),
                    !.users = MapRestrict(db.users,
                        (DOMAIN db.users) \ {user_id})],
                 response_empty)
        ELSE Out([db EXCEPT
                    !.user_groups = MapRestrict(db.user_groups,
                        (DOMAIN db.user_groups) \ delete_vec)],
                 Resp(400, MsgSoleAdmin, "", NoId, vec, EmptyMap)))

\* /user/delete doing what its closed-group message says: the memberships of
\* open groups are removed before the failure is reported
user_delete_closed_partial(db, user_id) ==
    lock(db,
        IF user_id \notin DOMAIN db.users
        THEN Out(db, response_error(MsgNotExist))
        ELSE
        LET collection == {x \in DOMAIN db.user_groups : x.user_id = user_id} IN
        IF \E x \in collection : x.group_id \notin DOMAIN db.groups
        THEN Out(db, Panic)
        ELSE
        LET closed_collect == {x \in collection : db.groups[x.group_id] = TRUE}
            free_collect == {x \in collection : db.groups[x.group_id] = FALSE}
            delete_vec == {x \in free_collect :
                \/ db.user_groups[x].access_level = "User"
                \/ count_admins(x.group_id, db.user_groups) > 1}
            vec == {x.group_id : x \in free_collect \ delete_vec}
            flag == vec # {}
        IN
        IF Cardinality(closed_collect) > 0
        THEN Out([db EXCEPT
                    !.user_groups = MapRestrict(db.user_groups,
                        (DOMAIN db.user_groups) \ delete_vec)],
                 response_error(MsgHasClosed))
        ELSE IF flag = FALSE
        THEN Out([db EXCEPT
                    !.user_groups = MapRestrict(db.user_groups,
                        (DOMAIN db.user_groups) \ delete_vec),
                    !.users = MapRestrict(db.users,
                        (DOMAIN db.users) \ {user_id})],
                 response_empty)
        ELSE Out(db, Resp(400, MsgSoleAdmin, "", NoId, vec, EmptyMap)))

\* /user/delete removing the user record only
user_delete_nocascade(db, user_id) ==
    lock(db,
        IF user_id \notin DOMAIN db.users
        THEN Out(db, response_error(MsgNotExist))
        ELSE
        LET collection == {x \in DOMAIN db.user_groups : x.user_id = user_id} IN
        IF \E x \in collection : x.group_id \notin DOMAIN db.groups
        THEN Out(db, Panic)
        ELSE
        LET closed_collect == {x \in collection : db.groups[x.group_id] = TRUE}
            free_collect == {x \in collection : db.groups[x.group_id] = FALSE}
            delete_vec == {x \in free_collect :
                \/ db.user_groups[x].access_level = "User"
                \/ count_admins(x.group_id, db.user_groups) > 1}
            vec == {x.group_id : x \in free_collect \ delete_vec}
            flag == vec # {}
        IN
        IF Cardinality(closed_collect) > 0
        THEN Out(db, response_error(MsgHasClosed))
        ELSE IF flag = FALSE
        THEN Out([db EXCEPT
                    !.users = MapRestrict(db.users,
                        (DOMAIN db.users) \ {user_id})],
                 response_empty)
        ELSE Out(db, Resp(400, MsgSoleAdmin, "", NoId, vec, EmptyMap)))

\* /user/delete with && for ||: a plain membership counts as blocking
user_delete_and(db, user_id) ==
    lock(db,
        IF user_id \notin DOMAIN db.users
        THEN Out(db, response_error(MsgNotExist))
        ELSE
        LET collection == {x \in DOMAIN db.user_groups : x.user_id = user_id} IN
        IF \E x \in collection : x.group_id \notin DOMAIN db.groups
        THEN Out(db, Panic)
        ELSE
        LET closed_collect == {x \in collection : db.groups[x.group_id] = TRUE}
            free_collect == {x \in collection : db.groups[x.group_id] = FALSE}
            delete_vec == {x \in free_collect :
                /\ db.user_groups[x].access_level = "User"
                /\ count_admins(x.group_id, db.user_groups) > 1}
            vec == {x.group_id : x \in free_collect \ delete_vec}
            flag == vec # {}
        IN
        IF Cardinality(closed_collect) > 0
        THEN Out(db, response_error(MsgHasClosed))
        ELSE IF flag = FALSE
        THEN Out([db EXCEPT
                    !.user_groups = MapRestrict(db.user_groups,
                        (DOMAIN db.user_groups) \ delete_vec),
                    !.users = MapRestrict(db.users,
                        (DOMAIN db.users) \ {user_id})],
                 response_empty)
        ELSE Out(db, Resp(400, MsgSoleAdmin, "", NoId, vec, EmptyMap)))

\* the /user/delete handler.  free_collect and closed_collect unwrap the
\* group of every membership of the user: a membership of an absent group
\* panics, before anything is removed.  vec is kept as the set of blocking
\* group ids (the HashMap's iteration order, hence the order in the
\* message, is unspecified)
user_delete(db, user_id) ==
    lock(db,
        IF user_id \notin DOMAIN db.users
        THEN Out(db, response_error(MsgNotExist))
        ELSE
        LET collection == {x \in DOMAIN db.user_groups : x.user_id = user_id} IN
        IF \E x \in collection : x.group_id \notin DOMAIN db.groups
        THEN Out(db, Panic)
        ELSE
        LET closed_collect == {x \in collection : db.groups[x.group_id] = TRUE}
            free_collect == {x \in collection : db.groups[x.group_id] = FALSE}
            delete_vec == {x \in free_collect :
                \/ db.user_groups[x].access_level = "User"
                \/ count_admins(x.group_id, db.user_groups) > 1}
            vec == {x.group_id : x \in free_collect \ delete_vec}
            flag == vec # {}
        IN
        IF Cardinality(closed_collect) > 0
        THEN Out(db, response_error(MsgHasClosed))
        ELSE IF flag = FALSE
        THEN Out([db EXCEPT
                    !.user_groups = MapRestrict(db.user_groups,
                        (DOMAIN db.user_groups) \ delete_vec),
                    !.users = MapRestrict(db.users,
                        (DOMAIN db.users) \ {user_id})],
                 response_empty)
        ELSE Out(db, Resp(400, MsgSoleAdmin, "", NoId, vec, EmptyMap)))

(***************************************************************************)
(* Commands: a request is decoded, its handler runs, the Response is kept  *)
(***************************************************************************)
\* a served command: the route, its decoded fields, its Response
Cmd(op, name, user_id, group_id, resp) ==
    [op |-> op, name |-> name, user_id |-> user_id, group_id |-> group_id,
     resp |-> resp]

NoCmd == Cmd("none", "", NoId, NoId, response_empty)

\* the ids a request may carry: those the counters can have allocated (an id
\* is absent before its creation and after its deletion)
UserIds == 0 .. MaxUsers - 1
GroupIds == 0 .. MaxGroups - 1

\* the ids returned by successful creations: per kind, the sequence returned
NoneIssued == [user |-> <<>>, group |-> <<>>]

\* the handler's outcome becomes the state
Serve(cmd, out) ==
    /\ users' = out.db.users
    /\ users_max_id' = out.db.users_max_id
    /\ groups' = out.db.groups
    /\ groups_max_id' = out.db.groups_max_id
    /\ user_groups' = out.db.user_groups
    /\ poisoned' = (poisoned \/ out.resp.status = 0)
    /\ last' = cmd
    /\ issued' = IF out.resp.status = 200 /\ cmd.op = "CreateUser"
                 THEN [issued EXCEPT !.user = Append(@, out.resp.id)]
                 ELSE IF out.resp.status = 200 /\ cmd.op = "CreateGroup"
                 THEN [issued EXCEPT !.group = Append(@, out.resp.id)]
                 ELSE issued
    /\ UNCHANGED thvars
    /\ UNCHANGED servars

ListUsers ==
    LET out == users_list(DB) IN
    Serve(Cmd("ListUsers", "", NoId, NoId, out.resp), out)

ListGroups ==
    LET out == groups_list(DB) IN
    Serve(Cmd("ListGroups", "", NoId, NoId, out.resp), out)

CreateUser ==
    \E name \in Names :
        LET out == user_create(DB, name) IN
        /\ Len(name) > 0 => users_max_id < MaxUsers
        /\ Serve(Cmd("CreateUser", name, NoId, NoId, out.resp), out)

CreateGroup ==
    \E creator_id \in UserIds :
        LET out == group_create(DB, creator_id) IN
        /\ groups_max_id < MaxGroups
        /\ Serve(Cmd("CreateGroup", "", creator_id, NoId, out.resp), out)

JoinGroup ==
    \E user_id \in UserIds, group_id \in GroupIds :
        LET out == group_join(DB, user_id, group_id) IN
        Serve(Cmd("JoinGroup", "", user_id, group_id, out.resp), out)

DemoteAdmin ==
    \E admin_id \in UserIds, group_id \in GroupIds :
        LET out == group_unadmin(DB, admin_id, group_id) IN
        Serve(Cmd("DemoteAdmin", "", admin_id, group_id, out.resp), out)

DeleteGroup ==
    \E admin_id \in UserIds, group_id \in GroupIds :
        LET out == group_delete(DB, admin_id, group_id) IN
        Serve(Cmd("DeleteGroup", "", admin_id, group_id, out.resp), out)

DeleteUser ==
    \E user_id \in UserIds :
        LET out == user_delete(DB, user_id) IN
        Serve(Cmd("DeleteUser", "", user_id, NoId, out.resp), out)

(***************************************************************************)
(* Decoding: the route closures read the body as a JSON object and take    *)
(* each field with get_field before they lock the Mutex                    *)
(***************************************************************************)
\* JSON values a field of the body may hold; "absent" stands for a key the
\* object does not have
FieldValues ==
    {[type |-> "absent", text |-> ""],
     [type |-> "number", text |-> "0"],
     [type |-> "string", text |-> ""],
     [type |-> "string", text |-> "abc"],
     [type |-> "string", text |-> "-1"]}
    \cup {[type |-> "string", text |-> ToString(i)] : i \in UserIds \cup GroupIds}

\* str::parse::<u32> on the sampled texts: decimal digits only
parse_id(text) ==
    IF \E i \in UserIds \cup GroupIds : ToString(i) = text
    THEN [ok |-> TRUE, id |-> CHOOSE i \in UserIds \cup GroupIds : ToString(i) = text]
    ELSE [ok |-> FALSE, id |-> NoId]

\* get_field: object.get(key).unwrap().as_str().unwrap().parse().unwrap();
\* ok is FALSE where one of the unwraps panics.  A name (T = String) parses
\* whatever its text, an id (T = Id) only from digits
get_field(object, key, is_id) ==
    IF object[key].type # "string" THEN [ok |-> FALSE, id |-> NoId]
    ELSE IF is_id THEN parse_id(object[key].text)
    ELSE [ok |-> TRUE, id |-> NoId]

\* the fields each route's closure takes from the body
RouteFields ==
    [user_create |-> <<"name">>,
     group_create |-> <<"creator_id">>,
     group_join |-> <<"user_id", "group_id">>,
     group_unadmin |-> <<"admin_id", "group_id">>,
     group_delete |-> <<"admin_id", "group_id">>,
     user_delete |-> <<"user_id">>]

Routes == DOMAIN RouteFields

\* the bodies a request to the route may carry
Bodies(route) ==
    [{RouteFields[route][i] : i \in 1 .. Len(RouteFields[route])} -> FieldValues]

\* every get_field of the route's closure returns
Decodes(route, object) ==
    \A i \in 1 .. Len(RouteFields[route]) :
        get_field(object, RouteFields[route][i], route # "user_create").ok

\* a closure that took the Mutex before its get_field calls
fields_read_locked_join(route) == route = "group_join"

\* whether the route's closure calls get_field with the Mutex held: none
\* does, each locks after its last get_field (lines 79/82, 143/145, 176/178,
\* 215/217, 250/252, 281/282)
fields_read_locked(route) == FALSE

\* a request whose body does not decode: get_field panics, the request's
\* thread ends without a Response; the DataBase is not touched
BadRequest ==
    \E route \in Routes :
        /\ {object \in Bodies(route) : ~Decodes(route, object)} # {}
        /\ last' = Cmd("Undecodable", route, NoId, NoId, Panic)
        /\ poisoned' = (poisoned \/ fields_read_locked(route))
        /\ UNCHANGED <<dbvars, issued, thvars, servars>>

\* no request thread is running
NoThread == 0
Threads == 1 .. NThreads

\* a handler's locals before it has run: no Response yet, nothing to delete
NoPlan == [resp |-> response_empty, delete_vec |-> {}]

\* the DataBase main() builds
EmptyDb == DataBase(EmptyMap, 0, EmptyMap, 0, EmptyMap)

ThreadsIdle ==
    /\ mutex = NoThread
    /\ pc = [t \in Threads |-> "idle"]
    /\ req = [t \in Threads |-> NoCmd]
    /\ local = [t \in Threads |-> NoId]
    /\ served = 0
    /\ blocked = [t \in Threads |-> FALSE]
    /\ done = {}
    /\ plan = [t \in Threads |-> NoPlan]
    /\ sdb = EmptyDb
    /\ expect = [t \in Threads |-> response_empty]

\* main(): the DataBase is built empty
Init ==
    /\ users = EmptyMap
    /\ users_max_id = 0
    /\ groups = EmptyMap
    /\ groups_max_id = 0
    /\ user_groups = EmptyMap
    /\ poisoned = FALSE
    /\ last = NoCmd
    /\ issued = NoneIssued
    /\ ThreadsIdle

Next ==
    \/ ListUsers
    \/ ListGroups
    \/ CreateUser
    \/ CreateGroup
    \/ JoinGroup
    \/ DemoteAdmin
    \/ DeleteGroup
    \/ DeleteUser
    \/ BadRequest

Spec == Init /\ [][Next]_vars

(***************************************************************************)
(* SpecDb: one command applied to any DataBase value whose memberships     *)
(* name present users and groups.  The flag is_closed, the access levels   *)
(* and the counters are free, so the branches of the handlers that no      *)
(* route can reach from the empty database (a closed group, a second       *)
(* admin) are exercised as the functions they are.                         *)
(***************************************************************************)
InitDb ==
    /\ users_max_id \in 0 .. MaxUsers
    /\ users \in UNION {[U -> {"Alice"}] : U \in SUBSET (0 .. users_max_id - 1)}
    /\ groups_max_id \in 0 .. MaxGroups
    /\ groups \in UNION {[G -> BOOLEAN] : G \in SUBSET (0 .. groups_max_id - 1)}
    /\ user_groups \in UNION {[K -> {UserGroupProps(a, 0) : a \in Access}] :
            K \in SUBSET {UserGroupId(u, g) : u \in DOMAIN users, g \in DOMAIN groups}}
    /\ poisoned = FALSE
    /\ last = NoCmd
    /\ issued = NoneIssued
    /\ ThreadsIdle

\* no command has been applied yet
Fresh == last.op = "none"

NextDb ==
    \/ Fresh /\ ListUsers
    \/ Fresh /\ ListGroups
    \/ Fresh /\ CreateUser
    \/ Fresh /\ CreateGroup
    \/ Fresh /\ JoinGroup
    \/ Fresh /\ DemoteAdmin
    \/ Fresh /\ DeleteGroup
    \/ Fresh /\ DeleteUser

SpecDb == InitDb /\ [][NextDb]_vars

(***************************************************************************)
(* SpecConc: request threads serving /user/create and /group/create, one   *)
(* statement of the handler per step.                                      *)
(***************************************************************************)
\* a lock that never waits
try_lock_nowait(t) == TRUE

\* Mutex::lock returns once no other thread holds the guard
try_lock(t) == mutex = NoThread

\* the request body is read and its fields decoded (get_field), before any
\* lock is taken
Receive(t) ==
    /\ pc[t] = "idle"
    /\ served < MaxReqs
    /\ \E c \in {Cmd("CreateUser", name, NoId, NoId, response_empty) : name \in Names}
              \cup {Cmd("CreateGroup", "", u, NoId, response_empty) : u \in UserIds} :
          req' = [req EXCEPT ![t] = c]
    /\ served' = served + 1
    /\ pc' = [pc EXCEPT ![t] = "decoded"]
    /\ blocked' = [blocked EXCEPT ![t] = FALSE]
    /\ UNCHANGED <<dbvars, poisoned, last, issued, mutex, local, done>>
    /\ UNCHANGED servars

\* user_create, line 80 else branch: an empty name is refused without locking
BadName(t) ==
    /\ pc[t] = "decoded"
    /\ req[t].op = "CreateUser"
    /\ ~(Len(req[t].name) > 0)
    /\ pc' = [pc EXCEPT ![t] = "idle"]
    /\ UNCHANGED <<dbvars, poisoned, last, issued, mutex, req, local, served, blocked, done>>
    /\ UNCHANGED servars

\* the thread is about to call lock(): its fields are decoded and, for
\* /user/create, the name is not empty
WantsLock(t) ==
    /\ pc[t] = "decoded"
    /\ req[t].op = "CreateUser" => Len(req[t].name) > 0

\* state.lock().unwrap(), lines 82 and 145; the threads left waiting are noted
Acquire(t) ==
    /\ WantsLock(t)
    /\ try_lock(t)
    /\ mutex' = t
    /\ pc' = [pc EXCEPT ![t] = "locked"]
    /\ blocked' = [o \in Threads |-> blocked[o] \/ (o # t /\ WantsLock(o))]
    /\ UNCHANGED <<dbvars, poisoned, last, issued, req, local, served, done>>
    /\ UNCHANGED servars

\* /group/create, lines 146-149: unknown creator; the guard is dropped
NoCreator(t) ==
    /\ pc[t] = "locked"
    /\ req[t].op = "CreateGroup"
    /\ req[t].user_id \notin DOMAIN users
    /\ mutex' = NoThread
    /\ pc' = [pc EXCEPT ![t] = "idle"]
    /\ UNCHANGED <<dbvars, poisoned, last, issued, req, local, served, blocked, done>>
    /\ UNCHANGED servars

\* let id = guard.users_max_id / guard.groups_max_id, lines 83 and 152
ReadId(t) ==
    /\ pc[t] = "locked"
    /\ req[t].op = "CreateGroup" => req[t].user_id \in DOMAIN users
    /\ local' = [local EXCEPT ![t] =
                    IF req[t].op = "CreateUser" THEN users_max_id ELSE groups_max_id]
    /\ pc' = [pc EXCEPT ![t] = "insert"]
    /\ UNCHANGED <<dbvars, poisoned, last, issued, mutex, req, served, blocked, done>>
    /\ UNCHANGED servars

\* guard.users.insert(id, name) / guard.groups.insert(id, false), lines 84, 153
Insert(t) ==
    /\ pc[t] = "insert"
    /\ IF req[t].op = "CreateUser"
       THEN /\ users' = MapInsert(users, local[t], req[t].name)
            /\ UNCHANGED groups
       ELSE /\ groups' = MapInsert(groups, local[t], FALSE)
            /\ UNCHANGED users
    /\ pc' = [pc EXCEPT ![t] = "incr"]
    /\ UNCHANGED <<users_max_id, groups_max_id, user_groups, poisoned, last,
                   issued, mutex, req, local, served, blocked, done>>
    /\ UNCHANGED servars

\* guard.users_max_id += 1 / guard.groups_max_id += 1, lines 85, 154
Incr(t) ==
    /\ pc[t] = "incr"
    /\ IF req[t].op = "CreateUser"
       THEN /\ users_max_id' = users_max_id + 1
            /\ UNCHANGED groups_max_id
       ELSE /\ groups_max_id' = groups_max_id + 1
            /\ UNCHANGED users_max_id
    /\ pc' = [pc EXCEPT ![t] = IF req[t].op = "CreateUser" THEN "respond" ELSE "member"]
    /\ UNCHANGED <<users, groups, user_groups, poisoned, last, issued, mutex,
                   req, local, served, blocked, done>>
    /\ UNCHANGED servars

\* guard.user_groups.insert(.., Admin), lines 155-166
Member(t) ==
    /\ pc[t] = "member"
    /\ user_groups' = MapInsert(user_groups, UserGroupId(req[t].user_id, local[t]),
                                UserGroupProps("Admin", 0))
    /\ pc' = [pc EXCEPT ![t] = "respond"]
    /\ UNCHANGED <<users, users_max_id, groups, groups_max_id, poisoned, last,
                   issued, mutex, req, local, served, blocked, done>>
    /\ UNCHANGED servars

\* response_data(json!({..: id})), lines 87 and 167; the guard goes out of
\* scope when the handler returns
Respond(t) ==
    /\ pc[t] = "respond"
    /\ done' = done \cup {[thread |-> t, op |-> req[t].op,
                           name |-> req[t].name, user_id |-> req[t].user_id,
                           id |-> local[t], waited |-> blocked[t]]}
    /\ mutex' = NoThread
    /\ pc' = [pc EXCEPT ![t] = "idle"]
    /\ UNCHANGED <<dbvars, poisoned, last, issued, req, local, served, blocked>>
    /\ UNCHANGED servars

NextConc ==
    \E t \in Threads :
        \/ Receive(t)
        \/ BadName(t)
        \/ Acquire(t)
        \/ NoCreator(t)
        \/ ReadId(t)
        \/ Insert(t)
        \/ Incr(t)
        \/ Member(t)
        \/ Respond(t)

SpecConc == Init /\ [][NextConc]_vars

(***************************************************************************)
(* SpecSer: request threads serving all eight routes.  A handler's reads   *)
(* (its checks, the id it takes, its delete_vec) are one step, each        *)
(* statement that writes the DataBase is a step of its own.  The fields a  *)
(* waiting request carries are its own and do not depend on the DataBase;  *)
(* they are drawn when the request gets the Mutex.  sdb and expect keep    *)
(* what the same commands give when each runs alone, in that order.  The   *)
(* id counters are capped as in Spec; the number of requests is not.       *)
(***************************************************************************)
\* the requests a client can send, fields decoded
Requests ==
    {Cmd("ListUsers", "", NoId, NoId, response_empty),
     Cmd("ListGroups", "", NoId, NoId, response_empty)}
    \cup {Cmd("CreateUser", name, NoId, NoId, response_empty) : name \in Names}
    \cup {Cmd("CreateGroup", "", u, NoId, response_empty) : u \in UserIds}
    \cup {Cmd(op, "", u, g, response_empty) :
            op \in {"JoinGroup", "DemoteAdmin", "DeleteGroup"},
            u \in UserIds, g \in GroupIds}
    \cup {Cmd("DeleteUser", "", u, NoId, response_empty) : u \in UserIds}

\* the route's handler applied to a DataBase
Handle(c, db) ==
    CASE c.op = "ListUsers" -> users_list(db)
      [] c.op = "ListGroups" -> groups_list(db)
      [] c.op = "CreateUser" -> user_create(db, c.name)
      [] c.op = "CreateGroup" -> group_create(db, c.user_id)
      [] c.op = "JoinGroup" -> group_join(db, c.user_id, c.group_id)
      [] c.op = "DemoteAdmin" -> group_unadmin(db, c.user_id, c.group_id)
      [] c.op = "DeleteGroup" -> group_delete(db, c.user_id, c.group_id)
      [] c.op = "DeleteUser" -> user_delete(db, c.user_id)

\* /user/delete, lines 290-305: the memberships the loop pushes to delete_vec
delete_vec_of(db, user_id) ==
    {x \in DOMAIN db.user_groups :
        /\ x.user_id = user_id
        /\ x.group_id \in DOMAIN db.groups
        /\ db.groups[x.group_id] = FALSE
        /\ \/ db.user_groups[x].access_level = "User"
           \/ count_admins(x.group_id, db.user_groups) > 1}

\* the handler writes the DataBase after its checks
Writes(c) == c.op \notin {"ListUsers", "ListGroups"}

\* the request is read and decoded; the handler is about to run
SArrive(t) ==
    /\ pc[t] = "idle"
    /\ pc' = [pc EXCEPT ![t] = "decoded"]
    /\ UNCHANGED <<dbvars, poisoned, last, issued, mutex, req, local, served,
                   blocked, done, servars>>

\* user_create, line 80 else branch: an empty name is refused without locking
SRefuse(t) ==
    /\ pc[t] = "decoded"
    /\ pc' = [pc EXCEPT ![t] = "idle"]
    /\ UNCHANGED <<dbvars, poisoned, last, issued, mutex, req, local, served,
                   blocked, done, servars>>

\* state.lock().unwrap(): the request gets the Mutex.  On a poisoned Mutex
\* the unwrap panics and the request ends
SLock(t) ==
    /\ pc[t] = "decoded"
    /\ try_lock(t)
    /\ \E c \in Requests :
          /\ c.op = "CreateUser" => (Len(c.name) > 0 /\ users_max_id < MaxUsers)
          /\ c.op = "CreateGroup" => groups_max_id < MaxGroups
          /\ IF poisoned
             THEN /\ pc' = [pc EXCEPT ![t] = "idle"]
                  /\ UNCHANGED <<mutex, req, sdb, expect>>
             ELSE /\ mutex' = t
                  /\ req' = [req EXCEPT ![t] = c]
                  /\ pc' = [pc EXCEPT ![t] = "check"]
                  /\ sdb' = Handle(c, sdb).db
                  /\ expect' = [expect EXCEPT ![t] = Handle(c, sdb).resp]
    /\ UNCHANGED <<dbvars, poisoned, last, issued, local, served, blocked, done,
                   plan>>

\* the handler's reads: its checks on the DataBase as it is now, the id a
\* creation takes (lines 83, 152), the delete_vec of /user/delete.  A failed
\* check builds the error Response; an unwrap that fails (line 294) panics
\* with the Mutex held, which poisons it
SCheck(t) ==
    /\ pc[t] = "check"
    /\ LET c == req[t]
           r == Handle(c, DB).resp
       IN
       /\ plan' = [plan EXCEPT ![t] =
                      [resp |-> r, delete_vec |-> delete_vec_of(DB, c.user_id)]]
       /\ local' = [local EXCEPT ![t] =
                      IF c.op = "CreateUser" THEN users_max_id
                      ELSE IF c.op = "CreateGroup" THEN groups_max_id
                      ELSE NoId]
       /\ poisoned' = (poisoned \/ r.status = 0)
       /\ mutex' = IF r.status = 0 THEN NoThread ELSE mutex
       /\ pc' = [pc EXCEPT ![t] =
                    IF r.status = 0 THEN "idle"
                    ELSE IF r.status = 200 /\ Writes(c) THEN "write1"
                    ELSE "finish"]
    /\ UNCHANGED <<dbvars, last, issued, req, served, blocked, done, sdb, expect>>

\* the handler's first write: users.insert (84), groups.insert (153),
\* user_groups.insert (202), access_level = User through get_mut (238-239),
\* user_groups.retain (268-270), the removals of delete_vec (320-323)
SWrite1(t) ==
    /\ pc[t] = "write1"
    /\ LET c == req[t]
           k == UserGroupId(c.user_id, c.group_id)
       IN
       /\ users' = IF c.op = "CreateUser"
                   THEN MapInsert(users, local[t], c.name) ELSE users
       /\ groups' = IF c.op = "CreateGroup"
                    THEN MapInsert(groups, local[t], FALSE) ELSE groups
       /\ user_groups' =
             CASE c.op = "JoinGroup" ->
                    MapInsert(user_groups, k, UserGroupProps("User", 0))
               [] c.op = "DemoteAdmin" /\ k \in DOMAIN user_groups ->
                    [user_groups EXCEPT ![k].access_level = "User"]
               [] c.op = "DeleteGroup" ->
                    MapRestrict(user_groups,
                        {x \in DOMAIN user_groups : x.group_id # c.group_id})
               [] c.op = "DeleteUser" ->
                    MapRestrict(user_groups,
                        (DOMAIN user_groups) \ plan[t].delete_vec)
               [] OTHER -> user_groups
       /\ poisoned' = (poisoned \/ (c.op = "DemoteAdmin" /\ k \notin DOMAIN user_groups))
       /\ pc' = [pc EXCEPT ![t] =
                    IF c.op \in {"JoinGroup", "DemoteAdmin"} THEN "finish" ELSE "write2"]
    /\ UNCHANGED <<users_max_id, groups_max_id, last, issued, mutex, req, local,
                   served, blocked, done, servars>>

\* the handler's second write: users_max_id += 1 (85), groups_max_id += 1
\* (154), groups.remove (271), users.remove (324)
SWrite2(t) ==
    /\ pc[t] = "write2"
    /\ LET c == req[t] IN
       /\ users_max_id' = IF c.op = "CreateUser" THEN users_max_id + 1 ELSE users_max_id
       /\ groups_max_id' = IF c.op = "CreateGroup" THEN groups_max_id + 1 ELSE groups_max_id
       /\ groups' = IF c.op = "DeleteGroup"
                    THEN MapRestrict(groups, (DOMAIN groups) \ {c.group_id})
                    ELSE groups
       /\ users' = IF c.op = "DeleteUser"
                   THEN MapRestrict(users, (DOMAIN users) \ {c.user_id})
                   ELSE users
       /\ pc' = [pc EXCEPT ![t] = IF c.op = "CreateGroup" THEN "write3" ELSE "finish"]
    /\ UNCHANGED <<user_groups, poisoned, last, issued, mutex, req, local,
                   served, blocked, done, servars>>

\* /group/create, lines 155-166: the creator's Admin membership
SWrite3(t) ==
    /\ pc[t] = "write3"
    /\ user_groups' = MapInsert(user_groups, UserGroupId(req[t].user_id, local[t]),
                                UserGroupProps("Admin", 0))
    /\ pc' = [pc EXCEPT ![t] = "finish"]
    /\ UNCHANGED <<users, users_max_id, groups, groups_max_id, poisoned, last,
                   issued, mutex, req, local, served, blocked, done, servars>>

\* the Response is returned; the guard goes out of scope
SFinish(t) ==
    /\ pc[t] = "finish"
    /\ mutex' = NoThread
    /\ pc' = [pc EXCEPT ![t] = "idle"]
    /\ req' = [req EXCEPT ![t] = NoCmd]
    /\ local' = [local EXCEPT ![t] = NoId]
    /\ plan' = [plan EXCEPT ![t] = NoPlan]
    /\ expect' = [expect EXCEPT ![t] = response_empty]
    /\ UNCHANGED <<dbvars, poisoned, last, issued, served, blocked, done, sdb>>

NextSer ==
    \E t \in Threads :
        \/ SArrive(t)
        \/ SRefuse(t)
        \/ SLock(t)
        \/ SCheck(t)
        \/ SWrite1(t)
        \/ SWrite2(t)
        \/ SWrite3(t)
        \/ SFinish(t)

SpecSer == Init /\ [][NextSer]_vars

(***************************************************************************)
(* Properties                                                              *)
(***************************************************************************)
\* the command served by a step, and what the step left alone
Ok(c) == c.resp.status = 200
Failed(c) == c.resp.status = 400
DbUnchanged == dbvars' = dbvars
Key(c) == UserGroupId(c.user_id, c.group_id)
StrictlyIncreasing(seq) ==
    \A i, j \in 1 .. Len(seq) : i < j => seq[i] < seq[j]
MembershipsOf(ugs, group_id) == {x \in DOMAIN ugs : x.group_id = group_id}
SameOn(m1, m2, keys) == \A k \in keys : k \in DOMAIN m1 /\ k \in DOMAIN m2 /\ m1[k] = m2[k]

\* C1: the ids returned by successful CreateUser calls are strictly
\* increasing (hence never repeat, also after deletions), likewise the ids
\* returned by successful CreateGroup calls, and every id present in a store
\* is below that store's next-id counter.
C1_IdsNeverReused ==
    /\ StrictlyIncreasing(issued.user)
    /\ StrictlyIncreasing(issued.group)
    /\ \A id \in DOMAIN users : id < users_max_id
    /\ \A id \in DOMAIN groups : id < groups_max_id

\* a user and a group were created after the first user and the first group
\* had been deleted
C1_Witness ==
    /\ Len(issued.user) = 2 /\ issued.user[1] \notin DOMAIN users
    /\ issued.user[2] \in DOMAIN users
    /\ Len(issued.group) = 2 /\ issued.group[1] \notin DOMAIN groups
    /\ issued.group[2] \in DOMAIN groups

\* C2: every group in the group registry has at least one membership with
\* access level Admin.
C2_EveryGroupHasAdmin ==
    \A g \in DOMAIN groups : count_admins(g, user_groups) >= 1

\* DeleteUser was refused for the sole admin of a group that has another member
C2_Witness ==
    /\ last.op = "DeleteUser" /\ Failed(last)
    /\ \E g \in last.resp.groups :
          /\ g \in DOMAIN groups
          /\ Cardinality(MembershipsOf(user_groups, g)) > 1

\* C3: DeleteGroup(adminId, groupId) fails unless (adminId, groupId) is a
\* membership of level Admin; then it succeeds, the group and every
\* membership of it are gone, and users, both counters, every other group
\* and every membership of another group are as before.
C3_DeleteGroup ==
    [][last'.op = "DeleteGroup" =>
        LET g == last'.group_id
            k == Key(last')
            others == (DOMAIN user_groups) \ MembershipsOf(user_groups, g)
        IN
        IF k \in DOMAIN user_groups /\ user_groups[k].access_level = "Admin"
        THEN /\ Ok(last')
             /\ g \notin DOMAIN groups'
             /\ MembershipsOf(user_groups', g) = {}
             /\ users' = users
             /\ users_max_id' = users_max_id
             /\ groups_max_id' = groups_max_id
             /\ DOMAIN groups' = (DOMAIN groups) \ {g}
             /\ SameOn(groups, groups', DOMAIN groups')
             /\ DOMAIN user_groups' = others
             /\ SameOn(user_groups, user_groups', others)
        ELSE Failed(last') /\ DbUnchanged]_vars

\* a group was deleted by its admin while another group and its memberships
\* stayed
C3_Witness ==
    /\ last.op = "DeleteGroup" /\ Ok(last)
    /\ DOMAIN groups # {}
    /\ DOMAIN user_groups # {}
    /\ last.group_id \notin DOMAIN groups

\* C4: DeleteUser of an existing user who is the sole Admin of an open group
\* fails and mutates nothing, whatever other memberships the user has.
C4_SoleAdminBlocksDelete ==
    [][(/\ last'.op = "DeleteUser"
        /\ last'.user_id \in DOMAIN users
        /\ \E x \in DOMAIN user_groups :
              /\ x.user_id = last'.user_id
              /\ user_groups[x].access_level = "Admin"
              /\ groups[x.group_id] = FALSE
              /\ count_admins(x.group_id, user_groups) = 1)
       => Failed(last') /\ DbUnchanged]_vars

\* the refused user also holds a plain membership, which is still there
C4_Witness ==
    /\ last.op = "DeleteUser" /\ Failed(last)
    /\ last.resp.groups # {}
    /\ \E x \in DOMAIN user_groups :
          x.user_id = last.user_id /\ user_groups[x].access_level = "User"

\* C5: DeleteUser of an existing user with a membership in a closed group
\* fails with the closed-group message, also when the user is the sole admin
\* of an open group, and removes neither the user nor any membership.
C5_ClosedGroupBlocksDelete ==
    [][(/\ last'.op = "DeleteUser"
        /\ last'.user_id \in DOMAIN users
        /\ \E x \in DOMAIN user_groups :
              x.user_id = last'.user_id /\ groups[x.group_id] = TRUE)
       => /\ Failed(last')
          /\ last'.resp.error = MsgHasClosed
          /\ DbUnchanged]_vars

\* the refused user is in a closed group, is the sole admin of an open group
\* and a plain member of another open group
C5_Witness ==
    /\ last.op = "DeleteUser" /\ last.resp.error = MsgHasClosed
    /\ \E x, y \in DOMAIN user_groups :
          /\ x.user_id = last.user_id /\ groups[x.group_id] = TRUE
          /\ y.user_id = last.user_id /\ groups[y.group_id] = FALSE
          /\ \/ user_groups[y].access_level = "User"
             \/ count_admins(y.group_id, user_groups) = 1

\* C6: DemoteAdmin by a member who is the only Admin of the group fails with
\* the last-admin message; the membership stays Admin and nothing changes.
C6_LastAdminKept ==
    [][(/\ last'.op = "DemoteAdmin"
        /\ Key(last') \in DOMAIN user_groups
        /\ user_groups[Key(last')].access_level = "Admin"
        /\ count_admins(last'.group_id, user_groups) < 2)
       => /\ Failed(last')
          /\ last'.resp.error = MsgLastAdmin
          /\ user_groups'[Key(last')].access_level = "Admin"
          /\ DbUnchanged]_vars

\* the sole admin of a group with a second member was refused
C6_Witness ==
    /\ last.op = "DemoteAdmin" /\ last.resp.error = MsgLastAdmin
    /\ Cardinality(MembershipsOf(user_groups, last.group_id)) > 1

\* C7: JoinGroup reports the first failing check in the order group
\* existence, closedness, user existence, duplicate membership, and succeeds,
\* inserting a membership of level User, only when all four pass.
C7_JoinCheckOrder ==
    [][last'.op = "JoinGroup" =>
        LET u == last'.user_id
            g == last'.group_id
            r == last'.resp
            open == g \in DOMAIN groups /\ groups[g] = FALSE
        IN
        /\ g \notin DOMAIN groups => Failed(last') /\ r.error = MsgNoGroup
        /\ (g \in DOMAIN groups /\ groups[g] = TRUE)
              => Failed(last') /\ r.error = MsgClosed
        /\ r.error = MsgNoUser <=> (open /\ u \notin DOMAIN users)
        /\ (open /\ u \in DOMAIN users /\ Key(last') \in DOMAIN user_groups)
              => Failed(last') /\ r.error = MsgAlready
        /\ Ok(last') <=> (open /\ u \in DOMAIN users
                            /\ Key(last') \notin DOMAIN user_groups)
        /\ Ok(last') =>
              /\ user_groups' = MapInsert(user_groups, Key(last'),
                                          UserGroupProps("User", 0))
              /\ UNCHANGED <<users, users_max_id, groups, groups_max_id>>
        /\ Failed(last') => DbUnchanged]_vars

\* a join into a closed group by an absent user was answered "group is closed"
C7_Witness ==
    /\ last.op = "JoinGroup" /\ last.resp.error = MsgClosed
    /\ last.user_id \notin DOMAIN users
    /\ groups[last.group_id] = TRUE

\* C8: JoinGroup for a pair that already has a membership fails with
\* "user already in group" and leaves that membership, its level included, as
\* it was.
C8_DuplicateJoinRefused ==
    [][(last'.op = "JoinGroup" /\ Key(last') \in DOMAIN user_groups)
       => /\ Failed(last')
          /\ last'.resp.error = MsgAlready
          /\ Key(last') \in DOMAIN user_groups'
          /\ user_groups'[Key(last')] = user_groups[Key(last')]
          /\ DbUnchanged]_vars

\* the creator of a group tried to join it and is still its Admin
C8_Witness ==
    /\ last.op = "JoinGroup" /\ last.resp.error = MsgAlready
    /\ user_groups[Key(last)].access_level = "Admin"

\* C9: CreateGroup fails with "no such user" and changes nothing, the group
\* counter included, when the creator is absent; otherwise it returns the
\* next group id, adds that group open, adds the one membership (creator,
\* id) of level Admin, and leaves users and everything else as before.
C9_CreateGroup ==
    [][last'.op = "CreateGroup" =>
        LET c == last'.user_id
            r == last'.resp
            id == groups_max_id
        IN
        IF c \notin DOMAIN users
        THEN Failed(last') /\ r.error = MsgNoUser /\ DbUnchanged
        ELSE /\ Ok(last') /\ r.key = "group_id" /\ r.id = id
             /\ id \notin DOMAIN groups
             /\ groups_max_id' = id + 1
             /\ groups' = MapInsert(groups, id, FALSE)
             /\ DOMAIN user_groups' = (DOMAIN user_groups) \cup {UserGroupId(c, id)}
             /\ UserGroupId(c, id) \notin DOMAIN user_groups
             /\ user_groups'[UserGroupId(c, id)].access_level = "Admin"
             /\ SameOn(user_groups, user_groups', DOMAIN user_groups)
             /\ UNCHANGED <<users, users_max_id>>]_vars

\* a second group was created while the first and its memberships exist
C9_Witness ==
    /\ last.op = "CreateGroup" /\ Ok(last)
    /\ last.resp.id \in DOMAIN groups
    /\ \E g \in DOMAIN groups : g # last.resp.id /\ MembershipsOf(user_groups, g) # {}
    /\ count_admins(last.resp.id, user_groups) = 1

\* C10: creations served concurrently never receive the same id, and every
\* created record is in the store afterwards: the user with its name, the
\* group open with its creator's Admin membership.
C10_ConcurrentCreations ==
    /\ \A r1, r2 \in done : (r1 # r2 /\ r1.op = r2.op) => r1.id # r2.id
    /\ \A r \in done :
          IF r.op = "CreateUser"
          THEN r.id \in DOMAIN users /\ users[r.id] = r.name
          ELSE /\ r.id \in DOMAIN groups
               /\ UserGroupId(r.user_id, r.id) \in DOMAIN user_groups

\* two threads finished a creation of the same kind, the second having
\* waited for the Mutex while the first held it
C10_Witness ==
    \E r1, r2 \in done :
        /\ r1.thread # r2.thread
        /\ r1.op = r2.op
        /\ r2.waited

\* a thread is inside its handler, between lock() and the guard's drop
Inside(t) == pc[t] \in {"check", "write1", "write2", "write3", "finish"}

\* C11: a command runs from its first read to its last write holding the
\* Mutex and at most one command holds it; so whenever no command is
\* running the DataBase is the one the same commands leave when run one by
\* one in the order they took the Mutex, every Response is the one the
\* command gives in that serial run, and no membership names an absent
\* group or user.
C11_Serializable ==
    /\ \A t \in Threads : Inside(t) => mutex = t
    /\ Cardinality({t \in Threads : Inside(t)}) <= 1
    /\ \A t \in Threads : pc[t] = "finish" => plan[t].resp = expect[t]
    /\ mutex = NoThread =>
          /\ DB = sdb
          /\ \A k \in DOMAIN user_groups :
                k.user_id \in DOMAIN users /\ k.group_id \in DOMAIN groups

\* a second JoinGroup of a pair is about to be answered "user already in
\* group" while another request waits for the Mutex
C11_Witness ==
    \E t1, t2 \in Threads :
        /\ pc[t1] = "finish" /\ pc[t2] = "decoded"
        /\ req[t1].op = "JoinGroup"
        /\ plan[t1].resp.error = MsgAlready
        /\ user_groups[Key(req[t1])].access_level = "User"

\* C12: a command answered with a failure leaves users, groups, memberships
\* and both id counters as they were, and ListUsers and ListGroups leave
\* them as they were whatever they answer.
C12_FailureLeavesState ==
    [][(Failed(last') \/ last'.op \in {"ListUsers", "ListGroups"})
           => DbUnchanged]_vars

\* a DeleteGroup by a member who is not the Admin was refused and the
\* group still has its memberships
C12_Witness ==
    /\ last.op = "DeleteGroup"
    /\ last.resp.error = MsgNotAdmin
    /\ last.group_id \in DOMAIN groups
    /\ Cardinality(MembershipsOf(user_groups, last.group_id)) >= 2

\* the group ids handed out by CreateGroup that no longer name a group
Deleted ==
    {issued.group[i] : i \in 1 .. Len(issued.group)} \ DOMAIN groups

\* C13: once DeleteGroup on g has succeeded, no later command brings g
\* back: g stays out of the group registry and of every ListGroups answer,
\* JoinGroup on g is answered "no such group", DemoteAdmin and DeleteGroup
\* on g fail, whatever was executed in between.
C13_DeletedGroupStaysGone ==
    [][/\ (last'.op = "DeleteGroup" /\ Ok(last')) => last'.group_id \in Deleted'
       /\ \A g \in Deleted :
            /\ g \notin DOMAIN groups'
            /\ last'.op = "ListGroups" => g \notin DOMAIN last'.resp.body
            /\ (last'.op = "JoinGroup" /\ last'.group_id = g)
                   => last'.resp = response_error(MsgNoGroup)
            /\ (last'.op \in {"DemoteAdmin", "DeleteGroup"} /\ last'.group_id = g)
                   => Failed(last')]_vars

\* a JoinGroup on a deleted group was refused although a group created
\* after the deletion exists
C13_Witness ==
    /\ last.op = "JoinGroup"
    /\ last.resp.error = MsgNoGroup
    /\ last.group_id \in Deleted
    /\ last.user_id \in DOMAIN users
    /\ \E g \in DOMAIN groups : g > last.group_id

\* C14: every group has at most one Admin, and every existing group exactly
\* one; so DemoteAdmin never succeeds and DeleteUser never meets an Admin
\* membership of a group with more than one Admin.
C14_AtMostOneAdmin ==
    /\ \A g \in GroupIds \cup DOMAIN groups : count_admins(g, user_groups) <= 1
    /\ \A g \in DOMAIN groups : count_admins(g, user_groups) = 1
    /\ last.op = "DemoteAdmin" => ~Ok(last)
    /\ \A k \in DOMAIN user_groups :
          user_groups[k].access_level = "Admin"
              => ~(count_admins(k.group_id, user_groups) > 1)

\* the Admin of a group with a second member asked to be demoted and was
\* refused as the group's only Admin
C14_Witness ==
    /\ last.op = "DemoteAdmin"
    /\ last.resp.error = MsgLastAdmin
    /\ Cardinality(MembershipsOf(user_groups, last.group_id)) >= 2
    /\ user_groups[Key(last)].access_level = "Admin"

\* the membership has the level
HasLevel(ugs, k, level) == k \in DOMAIN ugs /\ ugs[k].access_level = level

\* C15: no command turns a User membership into an Admin one; an Admin
\* membership that was not there before is the creator membership of the
\* group a successful CreateGroup just made; a successful JoinGroup inserts
\* a membership of level User.
C15_AdminOnlyByCreation ==
    [][/\ \A k \in DOMAIN user_groups :
            HasLevel(user_groups, k, "User") => ~HasLevel(user_groups', k, "Admin")
       /\ \A k \in DOMAIN user_groups' :
            (HasLevel(user_groups', k, "Admin") /\ k \notin DOMAIN user_groups)
                => /\ last'.op = "CreateGroup" /\ Ok(last')
                   /\ k = UserGroupId(last'.user_id, last'.resp.id)
                   /\ last'.resp.id \notin DOMAIN groups
       /\ (last'.op = "JoinGroup" /\ Ok(last'))
            => /\ Key(last') \notin DOMAIN user_groups
               /\ HasLevel(user_groups', Key(last'), "User")]_vars

\* a CreateGroup made its creator Admin of the new group in a DataBase
\* where the same user is a plain member of another group
C15_Witness ==
    /\ last.op = "CreateGroup" /\ Ok(last)
    /\ HasLevel(user_groups, UserGroupId(last.user_id, last.resp.id), "Admin")
    /\ \E g \in DOMAIN groups :
          HasLevel(user_groups, UserGroupId(last.user_id, g), "User")

\* C16: starting from the empty DataBase no group is ever closed, so no
\* JoinGroup is answered "group is closed" and no DeleteUser is answered
\* with the closed-group conflict.
C16_NoGroupClosed ==
    /\ \A g \in DOMAIN groups : groups[g] = FALSE
    /\ last.resp.error \notin {MsgClosed, MsgHasClosed}

\* a user joined a group, which passed the is_closed check
C16_Witness ==
    /\ last.op = "JoinGroup" /\ Ok(last)
    /\ groups[last.group_id] = FALSE
    /\ Key(last) \in DOMAIN user_groups

\* C17: a successful DeleteUser removes, in its one step, the user and
\* exactly the memberships of that user; the other users, the groups, the
\* memberships of the other users and both id counters stay as they were.
C17_DeleteUserCascade ==
    [][(last'.op = "DeleteUser" /\ Ok(last')) =>
          LET rest == {k \in DOMAIN user_groups : k.user_id # last'.user_id} IN
          /\ last'.user_id \in DOMAIN users
          /\ DOMAIN users' = DOMAIN users \ {last'.user_id}
          /\ SameOn(users, users', DOMAIN users')
          /\ DOMAIN user_groups' = rest
          /\ SameOn(user_groups, user_groups', rest)
          /\ groups' = groups
          /\ users_max_id' = users_max_id
          /\ groups_max_id' = groups_max_id]_vars

\* a user was deleted and no membership names them, while another user is
\* still Admin of one group and plain member of another
C17_Witness ==
    /\ last.op = "DeleteUser" /\ Ok(last)
    /\ last.user_id \notin DOMAIN users
    /\ \A k \in DOMAIN user_groups : k.user_id # last.user_id
    /\ \E u \in DOMAIN users : \E g1, g2 \in DOMAIN groups :
          /\ HasLevel(user_groups, UserGroupId(u, g1), "Admin")
          /\ HasLevel(user_groups, UserGroupId(u, g2), "User")

\* C18: in every state every membership names an existing user and an
\* existing group, so the group lookup /user/delete unwraps finds a group.
C18_ReferentialIntegrity ==
    \A k \in DOMAIN user_groups :
        k.user_id \in DOMAIN users /\ k.group_id \in DOMAIN groups

\* a group and then a user were deleted and memberships remain
C18_Witness ==
    /\ last.op = "DeleteUser" /\ Ok(last)
    /\ Deleted # {}
    /\ DOMAIN user_groups # {}

\* C19: DeleteUser succeeds exactly when the user exists and is Admin of no
\* existing group.
C19_DeleteUserIff ==
    [][last'.op = "DeleteUser" =>
          (Ok(last') <=>
              /\ last'.user_id \in DOMAIN users
              /\ ~\E g \in DOMAIN groups :
                    HasLevel(user_groups, UserGroupId(last'.user_id, g), "Admin"))]_vars

\* the only user ever created was deleted after the group they had created
\* was deleted
C19_Witness ==
    /\ last.op = "DeleteUser" /\ Ok(last)
    /\ issued.user = <<last.user_id>>
    /\ Deleted # {}

\* C20: no request panics holding the Mutex: the Mutex is never poisoned,
\* and the only requests that end without a Response are those whose body
\* does not decode, which leave the DataBase alone; every other command is
\* answered.
C20_NoPanicUnderLock ==
    /\ poisoned = FALSE
    /\ last.resp.status = 0 => last.op = "Undecodable"
    /\ last.op \notin {"Undecodable", "none"} => last.resp.status \in {200, 400}

\* a request that does not decode has panicked with users, groups and
\* memberships in place and the Mutex sound
C20_Witness ==
    /\ last.op = "Undecodable"
    /\ last.resp = Panic
    /\ DOMAIN user_groups # {}
    /\ poisoned = FALSE

=============================================================================
